---- MODULE Spec2Model ----
(***************************************************************************)
(* ToQen: the hospital token queue.  The model covers the tables           *)
(* queue_status and appointments, the client-side booking workflow         *)
(* (BookAppointment.tsx: generateTokenNumber, calculateEstimatedTime,      *)
(* onSubmit), the database functions advance_queue and                     *)
(* reset_department_queue, the row-level-security policies that decide     *)
(* which client statements touch a row, and department registration        *)
(* (DepartmentModal.tsx).                                                  *)
(*                                                                         *)
(* Every client statement is one network call and so one step; a plpgsql   *)
(* function runs in one transaction at READ COMMITTED: its SELECT is one   *)
(* step and its writes become visible together at commit, a second step.   *)
(***************************************************************************)
EXTENDS Integers, Sequences, FiniteSets, TLC

\* ---------------------------------------------------------------- bounds
MaxAppointments == 2
MaxToken == 2
MaxHistoryRows == 22

\* ------------------------------------------------------ static reference data
Sessions == {"s1", "s2"}
Users == {"a1", "a2", "p1"}
Hospitals == {"h1", "h2"}
DeptIds == {"d1", "d2", "d3"}
NoUser == "none"
\* SQL NULL / JavaScript null in an integer position
NULL == 0 - 1

\* hospitals.admin_id: one admin per hospital; p1 administers none
admin_id == [h \in Hospitals |-> IF h = "h1" THEN "a1" ELSE "a2"]
\* departments.hospital_id
dept_hospital == [d \in DeptIds |-> IF d \in {"d1", "d3"} THEN "h1" ELSE "h2"]
\* departments.avg_time_per_patient (column default)
avg_time_per_patient == 15

VARIABLES
    departments,    \* ids of the rows of table departments
    queue_status,   \* per department: the set of its queue_status rows
    appointments,   \* rows of table appointments, in order of creation
    pc,             \* per session: the statement it is about to run
    user,           \* per session: auth.uid() of the running operation
    arg,            \* per session: [hospital_id, department_id] of the running operation
    tmp,            \* per session: queueData.total_tokens / newTokenNumber / next_token
    est,            \* per session: estimatedMinutes computed by calculateEstimatedTime
    response,       \* what the last step delivered to its caller, if it ended an operation
    page            \* the TrackQueue page a patient keeps open: its state appointment and
                    \* queueStatus, and what channel queue_updates has announced to it

vars == <<departments, queue_status, appointments, pc, user, arg, tmp, est, response, page>>

NoArg == [hospital_id |-> "none", department_id |-> "none"]
NoResponse == [op |-> "none", user |-> NoUser, hospital_id |-> "none",
               department_id |-> "none", outcome |-> "none", value |-> NULL]

\* No TrackQueue page is open: appointment and queueStatus are null (the empty
\* set), and nothing has been announced.
NoPage == [appointment |-> {}, queueStatus |-> {}, queue_updates |-> {}]

\* What the caller u of an operation on (d, h) gets back: the value returned
\* (outcome "ok"), or the error raised.
Res(op, u, d, h, outcome, value) ==
    [op |-> op, user |-> u, hospital_id |-> h, department_id |-> d,
     outcome |-> outcome, value |-> value]

\* The response to the operation session s is running.
ResOf(s, op, outcome, value) ==
    Res(op, user[s], arg[s].department_id, arg[s].hospital_id, outcome, value)

\* ---------------------------------------------------------------- tables
\* The queue_status rows matching department_id = d AND hospital_id = h.
QueueRows(d, h) == {r \in queue_status[d] : r.hospital_id = h}

\* Mutant: the table has no UNIQUE constraint.
UniqueViolation_Never(d, h) == FALSE
\* UNIQUE(hospital_id, department_id): would a new row (h, d) be refused?
UniqueViolation(d, h) == QueueRows(d, h) # {}
\* Mutant: the check asks whether the caller administers some hospital, not this one.
IsHospitalAdmin_AnyHospital(u, h) == \E x \in Hospitals : admin_id[x] = u

\* EXISTS (SELECT 1 FROM hospitals h WHERE h.id = hospital_id AND h.admin_id = auth.uid())
IsHospitalAdmin(u, h) == h \in Hospitals /\ admin_id[h] = u

\* Policy "Hospital admins can manage queue status" (FOR ALL): the only policy
\* that lets a client INSERT or UPDATE a queue_status row.
ManageQueuePolicy(u, h) == h \in {x \in Hospitals : admin_id[x] = u}

InFlightBookings == Cardinality({s \in Sessions : pc[s] \in {"gen_insert", "gen_update", "calc_est", "insert"}})

Init ==
    /\ departments = {"d1"}
    /\ queue_status = [d \in DeptIds |->
          IF d = "d1" THEN {[hospital_id |-> "h1", current_token |-> 0, total_tokens |-> 0]}
          ELSE {}]
    /\ appointments = <<>>
    /\ pc = [s \in Sessions |-> "idle"]
    /\ user = [s \in Sessions |-> NoUser]
    /\ arg = [s \in Sessions |-> NoArg]
    /\ tmp = [s \in Sessions |-> NULL]
    /\ est = [s \in Sessions |-> NULL]
    /\ response = NoResponse
    /\ page = NoPage

\* A finished operation: the session returns to idle with its outcome.
Finish(s, r) ==
    /\ pc' = [pc EXCEPT ![s] = "idle"]
    /\ response' = r
    /\ user' = [user EXCEPT ![s] = NoUser]
    /\ arg' = [arg EXCEPT ![s] = NoArg]
    /\ tmp' = [tmp EXCEPT ![s] = NULL]
    /\ est' = [est EXCEPT ![s] = NULL]
    /\ UNCHANGED page

\* An operation begins: the session's first statement has run.
Begin(s, u, h, d, label, t) ==
    /\ pc' = [pc EXCEPT ![s] = label]
    /\ response' = NoResponse
    /\ user' = [user EXCEPT ![s] = u]
    /\ arg' = [arg EXCEPT ![s] = [hospital_id |-> h, department_id |-> d]]
    /\ tmp' = [tmp EXCEPT ![s] = t]
    /\ est' = [est EXCEPT ![s] = NULL]
    /\ UNCHANGED page

Goto(s, label, t) ==
    /\ pc' = [pc EXCEPT ![s] = label]
    /\ UNCHANGED page
    /\ tmp' = [tmp EXCEPT ![s] = t]
    /\ response' = NoResponse
    /\ UNCHANGED <<user, arg, est>>

\* ------------------------------------------------- booking (BookAppointment.tsx)
\* onSubmit up to the first statement of generateTokenNumber: SELECT total_tokens
\* ... .single(), answered with the row.
OnSubmitSelect(s, u, d) ==
    /\ pc[s] = "idle"
    /\ d \in departments
    /\ Len(appointments) + InFlightBookings < MaxAppointments
    /\ \E row \in QueueRows(d, dept_hospital[d]) :
          /\ row.total_tokens < MaxToken
          /\ Begin(s, u, dept_hospital[d], d, "gen_update", row.total_tokens)
    /\ UNCHANGED <<departments, queue_status, appointments>>

\* The same statement answered with queueError: no row matched, or the read failed.
OnSubmitSelectError(s, u, d) ==
    /\ pc[s] = "idle"
    /\ d \in departments
    /\ Len(appointments) + InFlightBookings < MaxAppointments
    /\ Begin(s, u, dept_hospital[d], d, "gen_insert", NULL)
    /\ UNCHANGED <<departments, queue_status, appointments>>

\* generateTokenNumber, the queueError branch: INSERT a row with total_tokens 1.
\* The insert passes only the admin policy, the UNIQUE(hospital_id, department_id)
\* constraint and the foreign key to departments; else insertError is thrown and
\* onSubmit's catch ends the booking.
GenInsert(s) ==
    /\ pc[s] = "gen_insert"
    /\ LET h == arg[s].hospital_id
           d == arg[s].department_id
       IN  \/ /\ ManageQueuePolicy(user[s], h)
              /\ ~UniqueViolation(d, h)
              /\ d \in departments
              /\ queue_status' = [queue_status EXCEPT ![d] =
                    @ \cup {[hospital_id |-> h, current_token |-> 0, total_tokens |-> 1]}]
              /\ Goto(s, "calc_est", 1)
           \/ /\ ~(ManageQueuePolicy(user[s], h) /\ ~UniqueViolation(d, h) /\ d \in departments)
              /\ Finish(s, ResOf(s, "book", "error", NULL))
              /\ UNCHANGED queue_status
    /\ UNCHANGED <<departments, appointments>>

\* The rows an UPDATE of queue_status by client u reaches: a row must match the
\* filter and pass the policy's USING clause; other rows are skipped without error.
UpdateReaches(u, d, h) == {r \in QueueRows(d, h) : ManageQueuePolicy(u, r.hospital_id)}

\* generateTokenNumber, the normal branch: newTokenNumber = total_tokens + 1, then
\* UPDATE total_tokens = newTokenNumber in a second statement.
GenUpdate(s) ==
    /\ pc[s] = "gen_update"
    /\ LET h == arg[s].hospital_id
           d == arg[s].department_id
           newTokenNumber == tmp[s] + 1
       IN  /\ queue_status' = [queue_status EXCEPT ![d] =
                    {IF r \in UpdateReaches(user[s], d, h)
                        THEN [r EXCEPT !.total_tokens = newTokenNumber] ELSE r : r \in @}]
           /\ Goto(s, "calc_est", newTokenNumber)
    /\ UNCHANGED <<departments, appointments>>

\* The UPDATE fails: updateError is thrown and onSubmit's catch ends the booking.
GenUpdateError(s) ==
    /\ pc[s] = "gen_update"
    /\ Finish(s, ResOf(s, "book", "error", NULL))
    /\ UNCHANGED <<departments, queue_status, appointments>>

Max(a, b) == IF a >= b THEN a ELSE b

\* calculateEstimatedTime: minutes added to the booking instant.
EstimatedMinutes(tokenNumber, currentToken, avgTime) ==
    Max(0, tokenNumber - currentToken - 1) * avgTime

CalcEst(s) ==
    /\ pc[s] = "calc_est"
    /\ LET rows == QueueRows(arg[s].department_id, arg[s].hospital_id)
           currentToken == IF rows = {} THEN 0 ELSE (CHOOSE r \in rows : TRUE).current_token
       IN  est' = [est EXCEPT ![s] = EstimatedMinutes(tmp[s], currentToken, avg_time_per_patient)]
    /\ pc' = [pc EXCEPT ![s] = "insert"]
    /\ response' = NoResponse
    /\ UNCHANGED <<departments, queue_status, appointments, user, arg, tmp, page>>

\* JavaScript x || 15 on a number: 0 (and null) give the default.
OrDefault(x, dflt) == IF x = 0 \/ x = NULL THEN dflt ELSE x

\* calculateEstimatedTime on what its two reads returned: queueData is the set
\* holding the row read (empty for null), deptData the department's
\* avg_time_per_patient (NULL for null).
CalculateEstimatedMinutes(tokenNumber, queueData, deptData) ==
    LET currentToken == IF queueData = {} THEN 0
                        ELSE OrDefault((CHOOSE r \in queueData : TRUE).current_token, 0)
        avgTime == OrDefault(deptData, 15)
    IN  EstimatedMinutes(tokenNumber, currentToken, avgTime)

\* What calculateEstimatedTime returned for the booking of session s in a
\* department whose avg_time_per_patient is avg.
EstimateResponse(s, avg, minutes) ==
    [op |-> "estimate", user |-> user[s], hospital_id |-> arg[s].hospital_id,
     department_id |-> arg[s].department_id, outcome |-> "ok", value |-> minutes,
     token_number |-> tmp[s], avg_time_per_patient |-> avg]

\* calculateEstimatedTime in a department whose avg_time_per_patient is avg;
\* either read may fail, and the function takes no notice of the error.
CalcEstFetched(s, avg, queueRead, deptRead) ==
    /\ pc[s] = "calc_est"
    /\ LET queueData == IF queueRead THEN QueueRows(arg[s].department_id, arg[s].hospital_id)
                        ELSE {}
           deptData == IF deptRead THEN avg ELSE NULL
           minutes == CalculateEstimatedMinutes(tmp[s], queueData, deptData)
       IN  /\ est' = [est EXCEPT ![s] = minutes]
           /\ response' = EstimateResponse(s, avg, minutes)
    /\ pc' = [pc EXCEPT ![s] = "insert"]
    /\ UNCHANGED <<departments, queue_status, appointments, user, arg, tmp, page>>

\* Mutant: the appointment takes the department's stored total instead of the
\* number the issuance returned.
NewAppointment_StoredTotal(s) ==
    [hospital_id |-> arg[s].hospital_id,
     department_id |-> arg[s].department_id,
     token_number |-> (CHOOSE r \in QueueRows(arg[s].department_id, arg[s].hospital_id) :
                          TRUE).total_tokens,
     status |-> "waiting", estimated_time |-> est[s],
     created_at |-> Len(appointments) + 1]

NewAppointment(s) ==
    [hospital_id |-> arg[s].hospital_id,
     department_id |-> arg[s].department_id, token_number |-> tmp[s],
     status |-> "waiting", estimated_time |-> est[s],
     created_at |-> Len(appointments) + 1]

\* onSubmit: INSERT INTO appointments, then the success toast.  The row's
\* department_id REFERENCES departments(id): the department must still exist.
InsertAppointment(s) ==
    /\ pc[s] = "insert"
    /\ arg[s].department_id \in departments
    /\ appointments' = Append(appointments, NewAppointment(s))
    /\ Finish(s, ResOf(s, "book", "ok", tmp[s]))
    /\ UNCHANGED <<departments, queue_status>>

\* The INSERT fails: the booking ends in onSubmit's catch, the token already counted.
InsertAppointmentError(s) ==
    /\ pc[s] = "insert"
    /\ Finish(s, ResOf(s, "book", "error", NULL))
    /\ UNCHANGED <<departments, queue_status, appointments>>

\* ------------------------------------- database functions (SECURITY DEFINER)
\* current_token + 1 in SQL: NULL stays NULL.
SqlPlusOne(x) == IF x = NULL THEN NULL ELSE x + 1

\* SELECT current_token + 1 INTO next_token: NULL when no row matches.
SelectNextToken(d, h) ==
    IF QueueRows(d, h) = {} THEN NULL
    ELSE SqlPlusOne((CHOOSE r \in QueueRows(d, h) : TRUE).current_token)

\* Mutant: the WHERE clauses pick the appointments by hospital alone.
InDept_HospitalOnly(a, d, h) == a.hospital_id = h

\* The appointment rows of a department, as the functions' WHERE clauses pick them.
InDept(a, d, h) == a.department_id = d /\ a.hospital_id = h

\* UPDATE appointments SET status = 'ready' WHERE ... token_number = next_token
\* AND status = 'waiting'.  A NULL next_token matches no row.
MarkReady(apps, d, h, next_token) ==
    [i \in DOMAIN apps |->
        IF InDept(apps[i], d, h) /\ next_token # NULL
           /\ apps[i].token_number = next_token /\ apps[i].status = "waiting"
        THEN [apps[i] EXCEPT !.status = "ready"] ELSE apps[i]]
\* Mutant: completes the appointment of the token just called instead of the previous one.
MarkCompleted_SameToken(apps, d, h, next_token) ==
    [i \in DOMAIN apps |->
        IF InDept(apps[i], d, h) /\ next_token # NULL
           /\ apps[i].token_number = next_token /\ apps[i].status = "ready"
        THEN [apps[i] EXCEPT !.status = "completed"] ELSE apps[i]]

\* UPDATE appointments SET status = 'completed' WHERE ... token_number =
\* next_token - 1 AND status = 'ready'.
MarkCompleted(apps, d, h, next_token) ==
    [i \in DOMAIN apps |->
        IF InDept(apps[i], d, h) /\ next_token # NULL
           /\ apps[i].token_number = next_token - 1 /\ apps[i].status = "ready"
        THEN [apps[i] EXCEPT !.status = "completed"] ELSE apps[i]]
\* Mutant: the counter is not moved past the tokens issued.
SetCurrentToken_Clamped(rows, h, next_token) ==
    {IF r.hospital_id = h /\ next_token <= r.total_tokens
        THEN [r EXCEPT !.current_token = next_token] ELSE r : r \in rows}

\* UPDATE queue_status SET current_token = next_token WHERE department_id = dept_id
\* AND hospital_id = hospital_id.
SetCurrentToken(rows, h, next_token) ==
    {IF r.hospital_id = h THEN [r EXCEPT !.current_token = next_token] ELSE r : r \in rows}

\* advance_queue, first part: the authorization check, then the SELECT.
AdvanceSelect(s, u, d, h) ==
    /\ pc[s] = "idle"
    /\ \/ /\ ~IsHospitalAdmin(u, h)
          /\ Finish(s, Res("advance", u, d, h, "Unauthorized", NULL))
       \/ /\ IsHospitalAdmin(u, h)
          /\ SelectNextToken(d, h) <= MaxToken
          /\ Begin(s, u, h, d, "adv_update", SelectNextToken(d, h))
    /\ UNCHANGED <<departments, queue_status, appointments>>

\* advance_queue, second part: the three UPDATEs and RETURN next_token, made
\* visible together when the function's transaction commits.
AdvanceUpdate(s) ==
    /\ pc[s] = "adv_update"
    /\ LET h == arg[s].hospital_id
           d == arg[s].department_id
           next_token == tmp[s]
       IN  /\ queue_status' = [queue_status EXCEPT ![d] = SetCurrentToken(@, h, next_token)]
           /\ appointments' = MarkCompleted(MarkReady(appointments, d, h, next_token),
                                             d, h, next_token)
           /\ Finish(s, ResOf(s, "advance", "ok", next_token))
    /\ UNCHANGED departments
\* Mutant: the reset forgets current_token.
ResetRows_TotalOnly(rows, h) ==
    {IF r.hospital_id = h THEN [r EXCEPT !.total_tokens = 0] ELSE r : r \in rows}

\* Mutant: the reset picks the rows by department alone.
ResetRows_AnyHospital(rows, h) ==
    {[r EXCEPT !.current_token = 0, !.total_tokens = 0] : r \in rows}

\* UPDATE queue_status SET current_token = 0, total_tokens = 0 WHERE ...
ResetRows(rows, h) ==
    {IF r.hospital_id = h THEN [r EXCEPT !.current_token = 0, !.total_tokens = 0] ELSE r
        : r \in rows}

\* Mutant: the reset also cancels the appointment being served.
CancelWaiting_AndReady(apps, d, h) ==
    [i \in DOMAIN apps |->
        IF InDept(apps[i], d, h) /\ apps[i].status \in {"waiting", "ready"}
        THEN [apps[i] EXCEPT !.status = "cancelled"] ELSE apps[i]]

\* UPDATE appointments SET status = 'cancelled' WHERE ... status = 'waiting'.
CancelWaiting(apps, d, h) ==
    [i \in DOMAIN apps |->
        IF InDept(apps[i], d, h) /\ apps[i].status = "waiting"
        THEN [apps[i] EXCEPT !.status = "cancelled"] ELSE apps[i]]

\* reset_department_queue: it reads nothing it later writes, so its transaction
\* is one step.
ResetDepartmentQueue(s, u, d, h) ==
    /\ pc[s] = "idle"
    /\ \/ /\ ~IsHospitalAdmin(u, h)
          /\ Finish(s, Res("reset", u, d, h, "Unauthorized", NULL))
          /\ UNCHANGED <<queue_status, appointments>>
       \/ /\ IsHospitalAdmin(u, h)
          /\ queue_status' = [queue_status EXCEPT ![d] = ResetRows(@, h)]
          /\ appointments' = CancelWaiting(appointments, d, h)
          /\ Finish(s, Res("reset", u, d, h, "ok", NULL))
    /\ UNCHANGED departments

\* CREATE TYPE appointment_status AS ENUM (...)
Statuses == {"waiting", "ready", "completed", "cancelled"}

\* Values of appointment_id_param: the ids of the rows the table can hold, in use or not.
AppointmentIds == 1..MaxAppointments

\* SQL NULL in a uuid position (SELECT ... INTO with no row)
NullId == "null"

\* SELECT hospital_id INTO appointment_hospital_id FROM appointments WHERE id = ...
AppointmentHospitalId(apps, appointment_id_param) ==
    IF appointment_id_param \in DOMAIN apps THEN apps[appointment_id_param].hospital_id
    ELSE NullId

\* SELECT id INTO admin_hospital_id FROM hospitals WHERE admin_id = admin_id_param
AdminHospitalId(admin_id_param) ==
    IF \E h \in Hospitals : admin_id[h] = admin_id_param
    THEN CHOOSE h \in Hospitals : admin_id[h] = admin_id_param
    ELSE NullId
\* Mutant: a NULL on either side counts as different.
SqlNotEqualIsTrue_NullDiffers(a, b) == a # b

\* IF a != b THEN: the branch is taken only when the comparison is TRUE; with a
\* NULL operand it is NULL and the branch is skipped.
SqlNotEqualIsTrue(a, b) == a # NullId /\ b # NullId /\ a # b

\* Mutant: the update also stamps the row as new.
SetStatus_Restamped(apps, appointment_id_param, new_status) ==
    [i \in DOMAIN apps |->
        IF i = appointment_id_param
        THEN [apps[i] EXCEPT !.status = new_status, !.created_at = Len(apps) + 1]
        ELSE apps[i]]

\* UPDATE appointments SET status = new_status WHERE id = appointment_id_param
SetStatus(apps, appointment_id_param, new_status) ==
    [i \in DOMAIN apps |->
        IF i = appointment_id_param THEN [apps[i] EXCEPT !.status = new_status] ELSE apps[i]]

\* What update_appointment_status answers: the boolean returned, with the call's
\* parameters.
StatusResponse(appointment_id_param, new_status, admin_id_param, returned) ==
    [op |-> "update_status", user |-> admin_id_param,
     hospital_id |-> AppointmentHospitalId(appointments, appointment_id_param),
     department_id |-> "none", outcome |-> returned, value |-> NULL,
     appointment_id |-> appointment_id_param, new_status |-> new_status]

\* update_appointment_status: executable by every authenticated user; the two
\* SELECTs read columns no operation writes, so its transaction is one step.
UpdateAppointmentStatus(s, appointment_id_param, new_status, admin_id_param) ==
    /\ pc[s] = "idle"
    /\ LET appointment_hospital_id == AppointmentHospitalId(appointments, appointment_id_param)
           admin_hospital_id == AdminHospitalId(admin_id_param)
       IN  \/ /\ SqlNotEqualIsTrue(appointment_hospital_id, admin_hospital_id)
              /\ Finish(s, StatusResponse(appointment_id_param, new_status,
                                          admin_id_param, "FALSE"))
              /\ UNCHANGED appointments
           \/ /\ ~SqlNotEqualIsTrue(appointment_hospital_id, admin_hospital_id)
              /\ appointments' = SetStatus(appointments, appointment_id_param, new_status)
              /\ Finish(s, StatusResponse(appointment_id_param, new_status,
                                          admin_id_param, "TRUE"))
    /\ UNCHANGED <<departments, queue_status>>

\* ----------------------------------------------------- get_patient_history
\* LIMIT 20
HistoryLimit == 20

\* WHERE a.user_id = patient_id_param.  The joins with hospitals and departments
\* drop no row: both foreign keys of every row name existing rows.
WherePatient(rows, patient_id_param) ==
    SelectSeq(rows, LAMBDA a : a.user_id = patient_id_param)

\* The position in rows of the row created last.
LatestIndex(rows) ==
    CHOOSE i \in DOMAIN rows : \A j \in DOMAIN rows : rows[j].created_at <= rows[i].created_at

\* rows without the row at position i
RemoveAt(rows, i) == SubSeq(rows, 1, i - 1) \o SubSeq(rows, i + 1, Len(rows))

\* ORDER BY a.created_at DESC
RECURSIVE OrderByCreatedAtDesc(_)
OrderByCreatedAtDesc(rows) ==
    IF rows = <<>> THEN <<>>
    ELSE LET i == LatestIndex(rows)
         IN  <<rows[i]>> \o OrderByCreatedAtDesc(RemoveAt(rows, i))
\* Mutant: the limit keeps the end of the ordered rows.
Limit_FromEnd(rows, n) ==
    IF Len(rows) <= n THEN rows ELSE SubSeq(rows, Len(rows) - n + 1, Len(rows))

\* LIMIT n
Limit(rows, n) == IF Len(rows) <= n THEN rows ELSE SubSeq(rows, 1, n)

\* RETURN QUERY SELECT ... of get_patient_history
PatientHistory(rows, patient_id_param) ==
    Limit(OrderByCreatedAtDesc(WherePatient(rows, patient_id_param)), HistoryLimit)

\* What get_patient_history answers: the rows returned, with the parameter.
HistoryResponse(patient_id_param, rows) ==
    [op |-> "history", user |-> patient_id_param, hospital_id |-> "none",
     department_id |-> "none", outcome |-> "ok", value |-> NULL, rows |-> rows]

\* get_patient_history: one query, one step.
GetPatientHistory(s, patient_id_param) ==
    /\ pc[s] = "idle"
    /\ Finish(s, HistoryResponse(patient_id_param,
                                 PatientHistory(appointments, patient_id_param)))
    /\ UNCHANGED <<departments, queue_status, appointments>>

\* A table of n appointments of department d1 in order of creation, with the
\* column user_id the query filters on: the odd rows among the first k were
\* booked by a1, all others by p1.
HistoryTable(n, k) ==
    [i \in 1..n |->
        [hospital_id |-> "h1", department_id |-> "d1", token_number |-> i,
         status |-> "waiting", estimated_time |-> 0, created_at |-> i,
         user_id |-> IF i <= k /\ i % 2 = 1 THEN "a1" ELSE "p1"]]

\* ------------------------------------------------ queue tracking (TrackQueue)
\* Values of departments.avg_time_per_patient a fetch can find: the column is a
\* plain integer that the hospital's admin may set.
AvgTimes == {0, 5, 15}

\* The page's state `appointment` and `queueStatus`: null is the empty set, a
\* loaded row the set holding it.
\* fetchAppointmentDetails: the appointment joined with its department, or null
\* when no row has the id.
FetchAppointment(appointmentId, avg) ==
    IF appointmentId \in DOMAIN appointments
    THEN {[hospital_id |-> appointments[appointmentId].hospital_id,
           department_id |-> appointments[appointmentId].department_id,
           token_number |-> appointments[appointmentId].token_number,
           avg_time_per_patient |-> avg]}
    ELSE {}

\* fetchQueueStatus: the department's row; null before it was fetched, when the
\* fetch failed, or when no appointment was loaded.
FetchQueueStatus(appointment, fetched) ==
    IF appointment = {} \/ ~fetched THEN {}
    ELSE LET a == CHOOSE x \in appointment : TRUE
         IN  QueueRows(a.department_id, a.hospital_id)

\* Mutant: the position is the plain difference.
GetQueuePosition_Unclamped(appointment, queueStatus) ==
    IF appointment = {} \/ queueStatus = {} THEN 0
    ELSE (CHOOSE a \in appointment : TRUE).token_number
            - (CHOOSE q \in queueStatus : TRUE).current_token

\* getQueuePosition
GetQueuePosition(appointment, queueStatus) ==
    IF appointment = {} \/ queueStatus = {} THEN 0
    ELSE Max(0, (CHOOSE a \in appointment : TRUE).token_number
                    - (CHOOSE q \in queueStatus : TRUE).current_token)

\* getEstimatedWaitTime
GetEstimatedWaitTime(appointment, queueStatus) ==
    IF appointment = {} \/ queueStatus = {} THEN 0
    ELSE LET position == GetQueuePosition(appointment, queueStatus)
         IN  position * OrDefault((CHOOSE a \in appointment : TRUE).avg_time_per_patient, 15)

\* What the page shows for its state: the two values computed, with the state
\* they were computed from.
TrackResponse(appointment, queueStatus) ==
    [op |-> "track", user |-> NoUser, hospital_id |-> "none", department_id |-> "none",
     outcome |-> "ok", value |-> NULL,
     appointment |-> appointment, queueStatus |-> queueStatus,
     position |-> GetQueuePosition(appointment, queueStatus),
     wait_time |-> GetEstimatedWaitTime(appointment, queueStatus)]

\* TrackQueue: the page loads the appointment named in its URL and the queue
\* status of its department, then renders the position and the waiting time.
TrackQueue(s, appointmentId, avg, fetched) ==
    /\ pc[s] = "idle"
    /\ LET appointment == FetchAppointment(appointmentId, avg)
           queueStatus == FetchQueueStatus(appointment, fetched)
       IN  Finish(s, TrackResponse(appointment, queueStatus))
    /\ UNCHANGED <<departments, queue_status, appointments>>

\* An argument the caller left out.
Undefined == "undefined"

\* fetchQueueStatus(hospitalId?, departmentId?): what the page's queueStatus is
\* after the call.  Without both arguments the function returns at once and
\* the state keeps its value; else the state becomes the row read.
FetchQueueStatusArgs(hospitalId, departmentId) ==
    IF hospitalId = Undefined \/ departmentId = Undefined THEN page.queueStatus
    ELSE QueueRows(departmentId, hospitalId)

\* The queue_status rows the subscription's filter hospital_id = eq.h selects.
HospitalQueue(h) == [d \in DeptIds |-> QueueRows(d, h)]

\* A step of the page leaves the database and every session as they are.
PageStep ==
    /\ response' = NoResponse
    /\ UNCHANGED <<departments, queue_status, appointments, pc, user, arg, tmp, est>>

\* The page opens on the appointment of its URL: fetchAppointmentDetails loads
\* the appointment, then the queue status of its department, and the effect
\* subscribes to channel queue_updates, which announces changes from then on.
FetchAppointmentDetails(appointmentId) ==
    /\ page.appointment = {}
    /\ appointmentId \in DOMAIN appointments
    /\ LET appointment == FetchAppointment(appointmentId, avg_time_per_patient)
           a == CHOOSE x \in appointment : TRUE
       IN  page' = [appointment |-> appointment,
                    queueStatus |-> FetchQueueStatusArgs(a.hospital_id, a.department_id),
                    queue_updates |-> HospitalQueue(a.hospital_id)]
    /\ PageStep

\* The subscription's callback: the channel announces a change of the
\* hospital's queue_status rows, and the callback calls fetchQueueStatus()
\* with no arguments.
OnQueueUpdate ==
    /\ page.appointment # {}
    /\ LET a == CHOOSE x \in page.appointment : TRUE
       IN  /\ page.queue_updates # HospitalQueue(a.hospital_id)
           /\ page' = [page EXCEPT !.queue_updates = HospitalQueue(a.hospital_id),
                                   !.queueStatus = FetchQueueStatusArgs(Undefined, Undefined)]
    /\ PageStep

\* handleRefresh: the patient presses Refresh; fetchQueueStatus is called with
\* the appointment's hospital and department.
HandleRefresh ==
    /\ page.appointment # {}
    /\ LET a == CHOOSE x \in page.appointment : TRUE
       IN  page' = [page EXCEPT !.queueStatus =
                        FetchQueueStatusArgs(a.hospital_id, a.department_id)]
    /\ PageStep

\* ------------------------------------ department registration (DepartmentModal.tsx)
\* onSubmit, create branch: INSERT INTO departments by the hospital's admin.
DepartmentInsert(s, d) ==
    /\ pc[s] = "idle"
    /\ d \notin departments
    /\ departments' = departments \cup {d}
    /\ Begin(s, admin_id[dept_hospital[d]], dept_hospital[d], d, "dept_queue", NULL)
    /\ UNCHANGED <<queue_status, appointments>>

\* onSubmit, create branch: INSERT INTO queue_status (0, 0) in a second
\* statement; queueError is thrown when the row already exists.
DepartmentQueueInsert(s) ==
    /\ pc[s] = "dept_queue"
    /\ LET h == arg[s].hospital_id
           d == arg[s].department_id
       IN  \/ /\ ~UniqueViolation(d, h)
              /\ queue_status' = [queue_status EXCEPT ![d] =
                    @ \cup {[hospital_id |-> h, current_token |-> 0, total_tokens |-> 0]}]
              /\ Finish(s, ResOf(s, "department", "ok", NULL))
           \/ /\ UniqueViolation(d, h)
              /\ Finish(s, ResOf(s, "department", "error", NULL))
              /\ UNCHANGED queue_status
    /\ UNCHANGED <<departments, appointments>>

\* The policy "Hospital admins can manage departments": the rows of departments
\* a DELETE by client u reaches.
ManageDepartmentsPolicy(u, d) == IsHospitalAdmin(u, dept_hospital[d])

\* ON DELETE CASCADE of queue_status.department_id.
CascadeQueueStatus(d) == [queue_status EXCEPT ![d] = {}]

\* Mutant: appointments.department_id does not cascade.
CascadeAppointments_Kept(d) == appointments
\* ON DELETE CASCADE of appointments.department_id.
CascadeAppointments(d) == SelectSeq(appointments, LAMBDA a : a.department_id # d)

\* handleDelete: DELETE FROM departments WHERE id = d, one statement.  The
\* referencing rows go in the same statement; a client the policy does not
\* admit deletes nothing and gets no error.
DeleteDepartment(s, u, d) ==
    /\ pc[s] = "idle"
    /\ d \in departments
    /\ IF ManageDepartmentsPolicy(u, d)
          THEN /\ departments' = departments \ {d}
               /\ queue_status' = CascadeQueueStatus(d)
               /\ appointments' = CascadeAppointments(d)
          ELSE UNCHANGED <<departments, queue_status, appointments>>
    /\ response' = Res("delete", u, d, dept_hospital[d], "ok", NULL)
    /\ UNCHANGED <<pc, user, arg, tmp, est, page>>

\* ------------------------------------------------------------ specifications
\* The seeded department d1 of hospital h1, its admin a1 and a patient p1; every
\* statement succeeds.  Any caller may book and may call the two functions, and
\* the operations of the two sessions interleave statement by statement.
CoreUsers == {"a1", "p1"}
CoreDepts == {"d1"}
CoreHospitals == {"h1", "h2"}

Next ==
    \/ \E s \in Sessions, u \in CoreUsers, d \in CoreDepts : OnSubmitSelect(s, u, d)
    \/ \E s \in Sessions : GenUpdate(s)
    \/ \E s \in Sessions : CalcEst(s)
    \/ \E s \in Sessions : InsertAppointment(s)
    \/ \E s \in Sessions, u \in CoreUsers, d \in CoreDepts, h \in CoreHospitals :
          AdvanceSelect(s, u, d, h)
    \/ \E s \in Sessions : AdvanceUpdate(s)
    \/ \E s \in Sessions, u \in CoreUsers, d \in CoreDepts, h \in CoreHospitals :
          ResetDepartmentQueue(s, u, d, h)

Spec == Init /\ [][Next]_vars

\* No operation is running.
AllIdle == \A s \in Sessions : pc[s] = "idle"

\* The same callers, one operation at a time: an operation begins only when no
\* other is running, so every operation executes alone.
NextSeq ==
    \/ AllIdle /\ \E s \in Sessions, u \in CoreUsers, d \in CoreDepts : OnSubmitSelect(s, u, d)
    \/ \E s \in Sessions : GenUpdate(s)
    \/ \E s \in Sessions : CalcEst(s)
    \/ \E s \in Sessions : InsertAppointment(s)
    \/ AllIdle /\ \E s \in Sessions, u \in CoreUsers, d \in CoreDepts, h \in CoreHospitals :
          AdvanceSelect(s, u, d, h)
    \/ \E s \in Sessions : AdvanceUpdate(s)
    \/ AllIdle /\ \E s \in Sessions, u \in CoreUsers, d \in CoreDepts, h \in CoreHospitals :
          ResetDepartmentQueue(s, u, d, h)

SpecSeq == Init /\ [][NextSeq]_vars

\* The admission desk: the hospital's admin a1 books, advances and resets, one
\* operation at a time.  Every UPDATE of the booking reaches the row.
DeskUsers == {"a1"}

NextDesk ==
    \/ AllIdle /\ \E s \in Sessions, u \in DeskUsers, d \in CoreDepts : OnSubmitSelect(s, u, d)
    \/ \E s \in Sessions : GenUpdate(s)
    \/ \E s \in Sessions : CalcEst(s)
    \/ \E s \in Sessions : InsertAppointment(s)
    \/ AllIdle /\ \E s \in Sessions, u \in DeskUsers, d \in CoreDepts, h \in CoreHospitals :
          AdvanceSelect(s, u, d, h)
    \/ \E s \in Sessions : AdvanceUpdate(s)
    \/ AllIdle /\ \E s \in Sessions, u \in DeskUsers, d \in CoreDepts, h \in CoreHospitals :
          ResetDepartmentQueue(s, u, d, h)

SpecDesk == Init /\ [][NextDesk]_vars

\* Token issuance without reset or failure: the admin's sessions book
\* concurrently while the queue is being served.
NextIssue ==
    \/ \E s \in Sessions, u \in DeskUsers, d \in CoreDepts : OnSubmitSelect(s, u, d)
    \/ \E s \in Sessions : GenUpdate(s)
    \/ \E s \in Sessions : CalcEst(s)
    \/ \E s \in Sessions : InsertAppointment(s)
    \/ \E s \in Sessions, u \in DeskUsers, d \in CoreDepts, h \in CoreHospitals :
          AdvanceSelect(s, u, d, h)
    \/ \E s \in Sessions : AdvanceUpdate(s)

SpecIssue == Init /\ [][NextIssue]_vars

\* The operations on one department together with update_appointment_status,
\* called with any id as admin_id_param.  One client, the hospital's admin,
\* issues them, so each runs alone.
OneSession == {"s1"}

NextStatus ==
    \/ \E s \in OneSession, u \in DeskUsers, d \in CoreDepts : OnSubmitSelect(s, u, d)
    \/ \E s \in OneSession : GenUpdate(s)
    \/ \E s \in OneSession : CalcEst(s)
    \/ \E s \in OneSession : InsertAppointment(s)
    \/ \E s \in OneSession, u \in DeskUsers, d \in CoreDepts :
          AdvanceSelect(s, u, d, dept_hospital[d])
    \/ \E s \in OneSession : AdvanceUpdate(s)
    \/ \E s \in OneSession, u \in DeskUsers, d \in CoreDepts :
          ResetDepartmentQueue(s, u, d, dept_hospital[d])
    \/ \E s \in OneSession, i \in AppointmentIds, st \in Statuses, a \in Users :
          UpdateAppointmentStatus(s, i, st, a)

SpecStatus == Init /\ [][NextStatus]_vars

\* The admission desk with a tracking page open: bookings, advances and resets
\* by the admin, one at a time, and renderings of the page for any appointment id.
NextTrack ==
    \/ \E s \in OneSession, u \in DeskUsers, d \in CoreDepts : OnSubmitSelect(s, u, d)
    \/ \E s \in OneSession : GenUpdate(s)
    \/ \E s \in OneSession : CalcEst(s)
    \/ \E s \in OneSession : InsertAppointment(s)
    \/ \E s \in OneSession, u \in DeskUsers, d \in CoreDepts :
          AdvanceSelect(s, u, d, dept_hospital[d])
    \/ \E s \in OneSession : AdvanceUpdate(s)
    \/ \E s \in OneSession, u \in DeskUsers, d \in CoreDepts :
          ResetDepartmentQueue(s, u, d, dept_hospital[d])
    \/ \E s \in OneSession, i \in AppointmentIds, avg \in AvgTimes, fetched \in BOOLEAN :
          TrackQueue(s, i, avg, fetched)

SpecTrack == Init /\ [][NextTrack]_vars

\* Patient histories: the appointments table after up to MaxHistoryRows bookings
\* of d1, queried for any user.
InitHistory ==
    /\ departments = {"d1"}
    /\ queue_status = [d \in DeptIds |->
          IF d = "d1" THEN {[hospital_id |-> "h1", current_token |-> 0, total_tokens |-> 0]}
          ELSE {}]
    /\ \E n \in 0..MaxHistoryRows : \E k \in 0..n : appointments = HistoryTable(n, k)
    /\ pc = [s \in Sessions |-> "idle"]
    /\ user = [s \in Sessions |-> NoUser]
    /\ arg = [s \in Sessions |-> NoArg]
    /\ tmp = [s \in Sessions |-> NULL]
    /\ est = [s \in Sessions |-> NULL]
    /\ response = NoResponse
    /\ page = NoPage

NextHistory == \E s \in OneSession, p \in Users : GetPatientHistory(s, p)

SpecHistory == InitHistory /\ [][NextHistory]_vars

\* Three seeded departments, d1 and d3 of hospital h1 and d2 of hospital h2, each
\* with its queue_status row.  The admin of h1 books in any of them and calls
\* advance and reset for any of them with the department's hospital, one
\* operation at a time.
InitSeeded ==
    /\ departments = DeptIds
    /\ queue_status = [d \in DeptIds |->
          {[hospital_id |-> dept_hospital[d], current_token |-> 0, total_tokens |-> 0]}]
    /\ appointments = <<>>
    /\ pc = [s \in Sessions |-> "idle"]
    /\ user = [s \in Sessions |-> NoUser]
    /\ arg = [s \in Sessions |-> NoArg]
    /\ tmp = [s \in Sessions |-> NULL]
    /\ est = [s \in Sessions |-> NULL]
    /\ response = NoResponse
    /\ page = NoPage

NextCross ==
    \/ \E s \in OneSession, u \in DeskUsers, d \in DeptIds : OnSubmitSelect(s, u, d)
    \/ \E s \in OneSession : GenUpdate(s)
    \/ \E s \in OneSession : CalcEst(s)
    \/ \E s \in OneSession : InsertAppointment(s)
    \/ \E s \in OneSession, u \in DeskUsers, d \in DeptIds :
          AdvanceSelect(s, u, d, dept_hospital[d])
    \/ \E s \in OneSession : AdvanceUpdate(s)
    \/ \E s \in OneSession, u \in DeskUsers, d \in DeptIds :
          ResetDepartmentQueue(s, u, d, dept_hospital[d])

SpecCross == InitSeeded /\ [][NextCross]_vars

\* Hospital h2 while its admin a2 registers department d2: the department and
\* its queue_status row are inserted by two statements, and meanwhile a2's other
\* session books in d2 and advances its queue.
NewDepts == {"d2"}
NewDeptUsers == {"a2"}

NextRegister ==
    \/ \E s \in Sessions, d \in NewDepts : DepartmentInsert(s, d)
    \/ \E s \in Sessions : DepartmentQueueInsert(s)
    \/ \E s \in Sessions, u \in NewDeptUsers, d \in NewDepts : OnSubmitSelect(s, u, d)
    \/ \E s \in Sessions, u \in NewDeptUsers, d \in NewDepts : OnSubmitSelectError(s, u, d)
    \/ \E s \in Sessions : GenInsert(s)
    \/ \E s \in Sessions : GenUpdate(s)
    \/ \E s \in Sessions : CalcEst(s)
    \/ \E s \in Sessions : InsertAppointment(s)
    \/ \E s \in Sessions, u \in NewDeptUsers, d \in NewDepts :
          AdvanceSelect(s, u, d, dept_hospital[d])
    \/ \E s \in Sessions : AdvanceUpdate(s)

SpecRegister == Init /\ [][NextRegister]_vars

\* Bookings whose statements can fail: the admin and a patient book in d1, one
\* operation at a time, the UPDATE or the INSERT of a booking may be refused, and
\* the admin advances the queue.
NextFail ==
    \/ \E s \in OneSession, u \in CoreUsers, d \in CoreDepts : OnSubmitSelect(s, u, d)
    \/ \E s \in OneSession : GenUpdate(s)
    \/ \E s \in OneSession : GenUpdateError(s)
    \/ \E s \in OneSession : CalcEst(s)
    \/ \E s \in OneSession : InsertAppointment(s)
    \/ \E s \in OneSession : InsertAppointmentError(s)
    \/ \E s \in OneSession, u \in DeskUsers, d \in CoreDepts :
          AdvanceSelect(s, u, d, dept_hospital[d])
    \/ \E s \in OneSession : AdvanceUpdate(s)

SpecFail == Init /\ [][NextFail]_vars

\* Department deletion beside bookings: the seeded departments d1
\* and d3 of hospital h1, two sessions, the admin and a patient.  A deleted
\* department is not registered again.
SeededDepts == {"d1", "d3"}

NextDelete ==
    \/ \E s \in Sessions, u \in CoreUsers, d \in SeededDepts : DeleteDepartment(s, u, d)
    \/ \E s \in Sessions, u \in DeskUsers, d \in SeededDepts : OnSubmitSelect(s, u, d)
    \/ \E s \in Sessions : GenUpdate(s)
    \/ \E s \in Sessions : CalcEst(s)
    \/ \E s \in Sessions : InsertAppointment(s)
    \/ \E s \in Sessions : InsertAppointmentError(s)

SpecDelete == InitSeeded /\ [][NextDelete]_vars

\* A reset beside a booking: the admin books from one client, one booking at a
\* time; the queue is reset from either client, by the admin or by a patient
\* (who is refused), at any point of the booking.
NextOverlap ==
    \/ \E s \in OneSession, u \in DeskUsers, d \in CoreDepts : OnSubmitSelect(s, u, d)
    \/ \E s \in OneSession : GenUpdate(s)
    \/ \E s \in OneSession : CalcEst(s)
    \/ \E s \in OneSession : InsertAppointment(s)
    \/ \E s \in Sessions, u \in CoreUsers, d \in CoreDepts, h \in CoreHospitals :
          ResetDepartmentQueue(s, u, d, h)

SpecOverlap == Init /\ [][NextOverlap]_vars

\* The desk serving the queue without resets: the admin books, the admin and a
\* patient (who is refused) call advance_queue, one operation at a time.  Every
\* statement a client has issued is answered, and
\* the admin keeps calling advance_queue for the department of their hospital.
NextServe ==
    \/ AllIdle /\ \E s \in Sessions, u \in DeskUsers, d \in CoreDepts : OnSubmitSelect(s, u, d)
    \/ \E s \in Sessions : GenUpdate(s)
    \/ \E s \in Sessions : CalcEst(s)
    \/ \E s \in Sessions : InsertAppointment(s)
    \/ AllIdle /\ \E s \in Sessions, u \in CoreUsers, d \in CoreDepts, h \in CoreHospitals :
          AdvanceSelect(s, u, d, h)
    \/ \E s \in Sessions : AdvanceUpdate(s)

AdminKeepsAdvancing ==
    AllIdle /\ \E s \in Sessions, u \in DeskUsers, d \in CoreDepts :
                  AdvanceSelect(s, u, d, dept_hospital[d])

SpecServe ==
    /\ Init /\ [][NextServe]_vars
    /\ WF_vars(\E s \in Sessions : GenUpdate(s))
    /\ WF_vars(\E s \in Sessions : CalcEst(s))
    /\ WF_vars(\E s \in Sessions : InsertAppointment(s))
    /\ WF_vars(\E s \in Sessions : AdvanceUpdate(s))
    /\ WF_vars(AdminKeepsAdvancing)

\* One booking beside one advance: the admin or a patient books from one client
\* while the admin advances the queue from another, in any interleaving.
DeskSessions == Sessions \ OneSession

NextBeside ==
    \/ \E s \in OneSession, u \in CoreUsers, d \in CoreDepts : OnSubmitSelect(s, u, d)
    \/ \E s \in OneSession : GenUpdate(s)
    \/ \E s \in OneSession : CalcEst(s)
    \/ \E s \in OneSession : InsertAppointment(s)
    \/ \E s \in DeskSessions, u \in DeskUsers, d \in CoreDepts :
          AdvanceSelect(s, u, d, dept_hospital[d])
    \/ \E s \in DeskSessions : AdvanceUpdate(s)

SpecBeside == Init /\ [][NextBeside]_vars

\* A department of the other hospital: d2 of hospital h2, seeded with its row.
\* Its admin a2 books in it; both admins call advance and reset for d2, each
\* with either hospital id, one operation at a time.
Admins == {admin_id[h] : h \in Hospitals}
ForeignDepts == {"d2"}

NextForeign ==
    \/ \E s \in OneSession, d \in ForeignDepts :
          OnSubmitSelect(s, admin_id[dept_hospital[d]], d)
    \/ \E s \in OneSession : GenUpdate(s)
    \/ \E s \in OneSession : CalcEst(s)
    \/ \E s \in OneSession : InsertAppointment(s)
    \/ \E s \in OneSession, u \in Admins, d \in ForeignDepts, h \in Hospitals :
          AdvanceSelect(s, u, d, h)
    \/ \E s \in OneSession : AdvanceUpdate(s)
    \/ \E s \in OneSession, u \in Admins, d \in ForeignDepts, h \in Hospitals :
          ResetDepartmentQueue(s, u, d, h)

SpecForeign == InitSeeded /\ [][NextForeign]_vars

\* Bookings with the estimate observed: the admin and a patient book in a
\* department whose avg_time_per_patient may be any value of the column, the
\* two reads of calculateEstimatedTime may fail, and advance_queue is called,
\* one operation at a time.
NextEstimate ==
    \/ \E s \in OneSession, u \in CoreUsers, d \in CoreDepts : OnSubmitSelect(s, u, d)
    \/ \E s \in OneSession : GenUpdate(s)
    \/ \E s \in OneSession, avg \in AvgTimes, queueRead \in BOOLEAN, deptRead \in BOOLEAN :
          CalcEstFetched(s, avg, queueRead, deptRead)
    \/ \E s \in OneSession : InsertAppointment(s)
    \/ \E s \in OneSession, u \in CoreUsers, d \in CoreDepts :
          AdvanceSelect(s, u, d, dept_hospital[d])
    \/ \E s \in OneSession : AdvanceUpdate(s)

SpecEstimate == Init /\ [][NextEstimate]_vars

\* A patient watching the queue: the admin books and advances, one operation at
\* a time, while a TrackQueue page is open on one of the appointments.  Every
\* statement issued is answered and the channel delivers every change; nothing
\* makes the patient press Refresh.
NextWatch ==
    \/ \E s \in OneSession, u \in DeskUsers, d \in CoreDepts : OnSubmitSelect(s, u, d)
    \/ \E s \in OneSession : GenUpdate(s)
    \/ \E s \in OneSession : CalcEst(s)
    \/ \E s \in OneSession : InsertAppointment(s)
    \/ \E s \in OneSession, u \in DeskUsers, d \in CoreDepts :
          AdvanceSelect(s, u, d, dept_hospital[d])
    \/ \E s \in OneSession : AdvanceUpdate(s)
    \/ \E i \in AppointmentIds : FetchAppointmentDetails(i)
    \/ OnQueueUpdate
    \/ HandleRefresh

SpecWatch ==
    /\ Init /\ [][NextWatch]_vars
    /\ WF_vars(\E s \in OneSession : GenUpdate(s))
    /\ WF_vars(\E s \in OneSession : CalcEst(s))
    /\ WF_vars(\E s \in OneSession : InsertAppointment(s))
    /\ WF_vars(\E s \in OneSession : AdvanceUpdate(s))
    /\ WF_vars(OnQueueUpdate)

\* Every user, both hospitals, department registration and failing statements.
NextAll ==
    \/ \E s \in Sessions, u \in Users, d \in DeptIds : OnSubmitSelect(s, u, d)
    \/ \E s \in Sessions, u \in Users, d \in DeptIds : OnSubmitSelectError(s, u, d)
    \/ \E s \in Sessions : GenInsert(s)
    \/ \E s \in Sessions : GenUpdate(s)
    \/ \E s \in Sessions : GenUpdateError(s)
    \/ \E s \in Sessions : CalcEst(s)
    \/ \E s \in Sessions : InsertAppointment(s)
    \/ \E s \in Sessions : InsertAppointmentError(s)
    \/ \E s \in Sessions, u \in Users, d \in DeptIds, h \in Hospitals : AdvanceSelect(s, u, d, h)
    \/ \E s \in Sessions : AdvanceUpdate(s)
    \/ \E s \in Sessions, u \in Users, d \in DeptIds, h \in Hospitals :
          ResetDepartmentQueue(s, u, d, h)
    \/ \E s \in Sessions, d \in DeptIds : DepartmentInsert(s, d)
    \/ \E s \in Sessions : DepartmentQueueInsert(s)

SpecAll == Init /\ [][NextAll]_vars

\* ------------------------------------------------------------------ claims
\* The appointments of department d of hospital h, by position.
DeptAppointments(d, h) ==
    {i \in DOMAIN appointments :
        appointments[i].department_id = d /\ appointments[i].hospital_id = h}

\* Session s's advance_queue commits in this step.
AdvanceCommits(s) == pc[s] = "adv_update" /\ pc'[s] = "idle"

\* C1: two bookings of the same (hospital, department) whose generateTokenNumber
\* executions overlap (both have read total_tokens, neither has written) never
\* obtain the same token number.
C1_OverlappingBookingsDistinctTokens ==
    \A s1, s2 \in Sessions :
        (s1 # s2 /\ pc[s1] = "gen_update" /\ pc[s2] = "gen_update" /\ arg[s1] = arg[s2])
            => tmp[s1] + 1 # tmp[s2] + 1

\* C2: in every state reachable by sequential bookings, advances and resets, no
\* two appointments of one department that are not cancelled share a token number.
C2_NonCancelledTokensUnique ==
    \A i, j \in DOMAIN appointments :
        (i # j
         /\ appointments[i].department_id = appointments[j].department_id
         /\ appointments[i].hospital_id = appointments[j].hospital_id
         /\ appointments[i].status # "cancelled"
         /\ appointments[j].status # "cancelled")
            => appointments[i].token_number # appointments[j].token_number

\* C3: when the N bookings issued concurrently from total_tokens = 0 (no reset, no
\* failure) have all completed, the tokens assigned are exactly 1..N and
\* total_tokens is N.
C3_ConcurrentIssuanceExact ==
    AllIdle =>
        \A d \in CoreDepts :
            LET apps == DeptAppointments(d, dept_hospital[d])
                N == Cardinality(apps)
            IN  /\ {appointments[i].token_number : i \in apps} = 1..N
                /\ \A r \in QueueRows(d, dept_hospital[d]) : r.total_tokens = N

\* C4: after every booking that completes, run alone on a department whose row
\* exists, by any caller, total_tokens is one more than the value the booking
\* read and equals the token given to the new appointment.
C4_BookingIncrementsTotal ==
    [][\A s \in Sessions :
        (pc[s] = "insert" /\ pc'[s] = "idle" /\ response'.outcome = "ok")
            => \A r \in queue_status'[arg[s].department_id] :
                  r.hospital_id = arg[s].hospital_id => r.total_tokens = tmp[s]]_vars

\* C5 (as claimed): in every reachable state current_token <= total_tokens.
C5_CurrentNeverExceedsTotal ==
    \A d \in DeptIds : \A r \in queue_status[d] : r.current_token <= r.total_tokens

\* C5 (amended): current_token <= total_tokens holds for the seeded rows and
\* right after every authorized reset, which sets both counters to 0; advancing
\* is free to break it.
C5_ResetRestoresOrder ==
    /\ \A d \in DeptIds : \A r \in queue_status[d] : r.current_token <= r.total_tokens
    /\ [][(response'.op = "reset" /\ response'.outcome = "ok")
            => \A r \in queue_status'[response'.department_id] :
                  r.hospital_id = response'.hospital_id
                    => (r.current_token = 0 /\ r.total_tokens = 0
                        /\ r.current_token <= r.total_tokens)]_vars

\* C5 witness: an authorized reset has just run on a queue that had been advanced.
C5_Witness ==
    /\ response.op = "reset" /\ response.outcome = "ok"
    /\ \E i \in DOMAIN appointments : appointments[i].status \in {"ready", "completed"}
    /\ \A r \in queue_status[response.department_id] : r.current_token = 0

\* C6: in every step that is not a reset, neither total_tokens nor current_token
\* of any department decreases.
C6_CountersMonotoneExceptReset ==
    [][response'.op # "reset"
        => \A d \in DeptIds : \A r \in queue_status[d] : \A q \in queue_status'[d] :
              q.hospital_id = r.hospital_id
                => (q.total_tokens >= r.total_tokens /\ q.current_token >= r.current_token)]_vars

\* C7: authorized advances of one department that overlap (both have read
\* current_token, neither has written) return distinct values, so none is lost.
C7_OverlappingAdvancesDistinct ==
    \A s1, s2 \in Sessions :
        (s1 # s2 /\ pc[s1] = "adv_update" /\ pc[s2] = "adv_update" /\ arg[s1] = arg[s2])
            => tmp[s1] # tmp[s2]

\* What an advance from current_token = c makes of appointment a.
AdvancedStatus(a, d, h, c) ==
    IF a.department_id = d /\ a.hospital_id = h /\ a.token_number = c + 1 /\ a.status = "waiting"
    THEN "ready"
    ELSE IF a.department_id = d /\ a.hospital_id = h /\ a.token_number = c /\ a.status = "ready"
    THEN "completed"
    ELSE a.status

\* C8: an authorized advance executed alone on a department whose current_token
\* is c returns c + 1, leaves current_token = c + 1, makes the waiting
\* appointment numbered c + 1 ready and the ready appointment numbered c
\* completed, and changes nothing else; from c = 0 it completes nothing.
C8_AdvanceAlone ==
    [][\A s \in Sessions : AdvanceCommits(s) =>
        LET d == arg[s].department_id
            h == arg[s].hospital_id
        IN  \A r \in QueueRows(d, h) :
              LET c == r.current_token
              IN  /\ response'.op = "advance" /\ response'.outcome = "ok"
                  /\ response'.value = c + 1
                  /\ queue_status'[d] = (queue_status[d] \ {r})
                                            \cup {[r EXCEPT !.current_token = c + 1]}
                  /\ DOMAIN appointments' = DOMAIN appointments
                  /\ \A i \in DOMAIN appointments :
                        appointments'[i] = [appointments[i] EXCEPT
                                              !.status = AdvancedStatus(appointments[i], d, h, c)]
                  /\ c = 0 => \A i \in DOMAIN appointments :
                                 appointments'[i].status = "completed"
                                    => appointments[i].status = "completed"]_vars

\* C8 witness: the second advance has returned 2, token 2 is ready and token 1
\* completed.
C8_Witness ==
    /\ response.op = "advance" /\ response.outcome = "ok" /\ response.value = 2
    /\ \E i, j \in DOMAIN appointments :
          /\ appointments[i].token_number = 2 /\ appointments[i].status = "ready"
          /\ appointments[j].token_number = 1 /\ appointments[j].status = "completed"

\* C9 (as claimed): an authorized advance of a department whose current_token
\* has reached or passed total_tokens raises no error, adds one to current_token
\* and leaves every appointment as it was.
C9_EmptyAdvanceAltersNothing ==
    [][\A s \in Sessions : AdvanceCommits(s) =>
        \A r \in QueueRows(arg[s].department_id, arg[s].hospital_id) :
            r.current_token >= r.total_tokens
              => /\ response'.outcome = "ok"
                 /\ \A q \in queue_status'[arg[s].department_id] :
                       q.hospital_id = r.hospital_id => q.current_token = r.current_token + 1
                 /\ appointments' = appointments]_vars

\* C9 (amended): such an advance raises no error and sets current_token to the
\* value it read plus one (current_token + 1 when nothing ran in between), but
\* it may change appointments: a waiting one with the new number becomes ready
\* and a ready one with the number before becomes completed; no other changes.
C9_EmptyAdvanceAmended ==
    [][\A s \in Sessions :
        /\ (pc[s] = "idle" /\ pc'[s] = "adv_update")
              => \A r \in QueueRows(arg'[s].department_id, arg'[s].hospital_id) :
                    tmp'[s] = r.current_token + 1
        /\ AdvanceCommits(s) =>
              \A r \in QueueRows(arg[s].department_id, arg[s].hospital_id) :
                r.current_token >= r.total_tokens
                  => /\ response'.outcome = "ok" /\ response'.value = tmp[s]
                     /\ \A q \in queue_status'[arg[s].department_id] :
                           q.hospital_id = r.hospital_id => q.current_token = tmp[s]
                     /\ DOMAIN appointments' = DOMAIN appointments
                     /\ \A i \in DOMAIN appointments :
                           \/ appointments'[i] = appointments[i]
                           \/ /\ appointments[i].token_number = tmp[s]
                              /\ appointments[i].status = "waiting"
                              /\ appointments'[i] = [appointments[i] EXCEPT !.status = "ready"]
                           \/ /\ appointments[i].token_number = tmp[s] - 1
                              /\ appointments[i].status = "ready"
                              /\ appointments'[i] =
                                    [appointments[i] EXCEPT !.status = "completed"]]_vars

\* C9 witness: an advance has moved current_token beyond total_tokens and
\* completed the appointment that was ready.
C9_Witness ==
    /\ response.op = "advance" /\ response.outcome = "ok"
    /\ \E r \in queue_status[response.department_id] :
          r.current_token = response.value /\ r.current_token > r.total_tokens
    /\ \E i \in DOMAIN appointments :
          /\ appointments[i].status = "completed"
          /\ appointments[i].token_number = response.value - 1

\* C10: a call of advance_queue or reset_department_queue by a caller who is not
\* the admin of the hospital passed is answered with the Unauthorized error,
\* changes no queue_status row and no appointment, and never gets past the check.
C10_UnauthorizedRejected ==
    [][/\ (response'.op \in {"advance", "reset"}
           /\ admin_id[response'.hospital_id] # response'.user)
          => (response'.outcome = "Unauthorized"
              /\ queue_status' = queue_status /\ appointments' = appointments)
       /\ \A s \in Sessions :
            (pc[s] = "idle" /\ pc'[s] = "adv_update")
              => admin_id[arg'[s].hospital_id] = user'[s]]_vars

\* C10 witness: a reset by a non-admin was refused while an appointment it would
\* have cancelled is still waiting.
C10_Witness ==
    /\ response.op = "reset" /\ response.outcome = "Unauthorized"
    /\ admin_id[response.hospital_id] # response.user
    /\ \E i \in DOMAIN appointments : appointments[i].status = "waiting"

\* C11: an authorized reset executed alone on a department leaves its
\* current_token = 0 and total_tokens = 0, makes every waiting appointment of the
\* department cancelled, and leaves every ready, completed and already cancelled
\* appointment as it was.
C11_ResetAlone ==
    [][(response'.op = "reset" /\ response'.outcome = "ok") =>
        LET d == response'.department_id
            h == response'.hospital_id
        IN  /\ \A q \in queue_status'[d] :
                  q.hospital_id = h => (q.current_token = 0 /\ q.total_tokens = 0)
            /\ DOMAIN appointments' = DOMAIN appointments
            /\ \A i \in DOMAIN appointments :
                  IF /\ appointments[i].department_id = d
                     /\ appointments[i].hospital_id = h
                     /\ appointments[i].status = "waiting"
                  THEN appointments'[i] = [appointments[i] EXCEPT !.status = "cancelled"]
                  ELSE appointments'[i] = appointments[i]]_vars

\* C11 witness: a reset has cancelled a waiting appointment and left the ready
\* one ready, with both counters at 0.
C11_Witness ==
    /\ response.op = "reset" /\ response.outcome = "ok"
    /\ \A q \in queue_status[response.department_id] :
          q.current_token = 0 /\ q.total_tokens = 0
    /\ \E i, j \in DOMAIN appointments :
          appointments[i].status = "cancelled" /\ appointments[j].status = "ready"

\* C12: once an appointment is completed or cancelled, no step of any operation
\* (advance, reset, booking, update_appointment_status) changes its status.
C12_TerminalStatusesFinal ==
    [][\A i \in DOMAIN appointments :
        appointments[i].status \in {"completed", "cancelled"}
            => appointments'[i].status = appointments[i].status]_vars

\* C13: update_appointment_status changes an appointment only when
\* admin_id_param is the admin of the appointment's hospital; when it is the
\* admin of another hospital or of none, or the appointment does not exist, it
\* returns FALSE and leaves every appointment unchanged.
C13_StatusUpdateAuthorized ==
    [][response'.op = "update_status" =>
        LET i == response'.appointment_id
            authorized == /\ i \in DOMAIN appointments
                          /\ admin_id[appointments[i].hospital_id] = response'.user
        IN  /\ appointments' # appointments => authorized
            /\ ~authorized => (response'.outcome = "FALSE" /\ appointments' = appointments)]_vars

\* C14: a booking that completes successfully adds exactly one appointment; it
\* is waiting and carries the number generateTokenNumber returned to this
\* booking (the value read plus one, kept until the insert).
C14_BookingCreatesOneWaiting ==
    [][\A s \in Sessions :
        /\ (pc[s] = "gen_update" /\ pc'[s] = "calc_est") => tmp'[s] = tmp[s] + 1
        /\ (pc[s] = "calc_est" /\ pc'[s] = "insert") => tmp'[s] = tmp[s]
        /\ (pc[s] = "insert" /\ pc'[s] = "idle" /\ response'.outcome = "ok")
              => /\ Len(appointments') = Len(appointments) + 1
                 /\ \A i \in DOMAIN appointments : appointments'[i] = appointments[i]
                 /\ appointments'[Len(appointments')].status = "waiting"
                 /\ appointments'[Len(appointments')].token_number = tmp[s]
                 /\ appointments'[Len(appointments')].department_id = arg[s].department_id
                 /\ response'.op = "book" /\ response'.value = tmp[s]]_vars

\* C14 witness: the second booking has completed with token 2 and its
\* appointment is the last one, waiting.
C14_Witness ==
    /\ response.op = "book" /\ response.outcome = "ok" /\ response.value = 2
    /\ Len(appointments) = 2
    /\ appointments[2].token_number = 2 /\ appointments[2].status = "waiting"

\* C15: no step of advance_queue, reset_department_queue or
\* update_appointment_status (nor any other step) changes token_number,
\* hospital_id, department_id, estimated_time or created_at of an existing
\* appointment: only its status may differ afterwards.
C15_OnlyStatusChanges ==
    [][\A i \in DOMAIN appointments :
        /\ i \in DOMAIN appointments'
        /\ appointments'[i].token_number = appointments[i].token_number
        /\ appointments'[i].hospital_id = appointments[i].hospital_id
        /\ appointments'[i].department_id = appointments[i].department_id
        /\ appointments'[i].estimated_time = appointments[i].estimated_time
        /\ appointments'[i].created_at = appointments[i].created_at]_vars

\* C15 witness: update_appointment_status has just changed the status of the
\* first appointment while a later one exists, each still with the creation stamp
\* of its position.
C15_Witness ==
    /\ response.op = "update_status" /\ response.outcome = "TRUE"
    /\ Len(appointments) = 2
    /\ appointments[1].status = "completed" /\ appointments[1].created_at = 1
    /\ appointments[2].status = "ready" /\ appointments[2].estimated_time = 15

\* C16: for every appointment and queue status loaded, the position shown is
\* token_number - current_token when that is positive and 0 otherwise, so it is
\* never negative; it is 0 when the appointment or the queue status is not loaded.
C16_PositionClamped ==
    [][response'.op = "track" =>
        /\ response'.position >= 0
        /\ IF response'.appointment = {} \/ response'.queueStatus = {}
           THEN response'.position = 0
           ELSE \A a \in response'.appointment : \A q \in response'.queueStatus :
                  response'.position =
                     (IF a.token_number - q.current_token > 0
                      THEN a.token_number - q.current_token ELSE 0)]_vars

\* C16 witness: the page shows position 0 for an appointment whose number the
\* queue has already passed.
C16_Witness ==
    /\ response.op = "track" /\ response.position = 0
    /\ \E a \in response.appointment : \E q \in response.queueStatus :
          a.token_number < q.current_token

\* C17: for every position >= 0 and every avg_time_per_patient >= 0, 0
\* included, the waiting time shown is position * avg_time_per_patient.
C17_WaitIsPositionTimesAvg ==
    [][response'.op = "track" =>
        \A a \in response'.appointment : \A q \in response'.queueStatus :
            (response'.position >= 0 /\ a.avg_time_per_patient >= 0)
                => response'.wait_time = response'.position * a.avg_time_per_patient]_vars

\* The positions of the table rows whose user_id is u.
RowsOf(u) == {i \in DOMAIN appointments : appointments[i].user_id = u}

\* C18: get_patient_history returns only rows of the table whose user_id is the
\* patient given, each once, from the most recent created_at to the oldest, at
\* most 20 of them, and every row of the patient left out is older than every
\* row returned (so with more than 20 the 20 most recent are returned).
C18_HistoryRecentFirstTop20 ==
    [][response'.op = "history" =>
        LET r == response'.rows
            mine == RowsOf(response'.user)
            shown == {i \in mine : \E j \in DOMAIN r : r[j] = appointments[i]}
        IN  /\ \A j \in DOMAIN r :
                  r[j].user_id = response'.user
                  /\ \E i \in mine : appointments[i] = r[j]
            /\ \A j, k \in DOMAIN r : j < k => r[j].created_at > r[k].created_at
            /\ Len(r) <= 20
            /\ Len(r) = (IF Cardinality(mine) <= 20 THEN Cardinality(mine) ELSE 20)
            /\ \A i \in mine \ shown : \A j \in DOMAIN r :
                  appointments[i].created_at < r[j].created_at]_vars

\* C18 witness: a patient with more than 20 appointments, in a table that also
\* holds another user's, got 20 rows back.
C18_Witness ==
    /\ response.op = "history" /\ Len(response.rows) = 20
    /\ Cardinality(RowsOf(response.user)) > 20
    /\ \E i \in DOMAIN appointments : appointments[i].user_id # response.user

\* C19: a step of a booking, an advance or a reset addressed to department A
\* changes no queue_status row of another department and no appointment of
\* another department, of the same hospital or not.
C19_OtherDepartmentsUntouched ==
    [][\A s \in Sessions :
        (pc'[s] # pc[s] \/ response'.op # "none") =>
            LET A == IF response'.op # "none" THEN response'.department_id
                     ELSE arg'[s].department_id
            IN  /\ \A B \in DeptIds \ {A} : queue_status'[B] = queue_status[B]
                /\ \A i \in DOMAIN appointments :
                      appointments[i].department_id # A
                        => appointments'[i] = appointments[i]]_vars

\* C19 witness: d1 has just been reset while an appointment of d3, a department
\* of the same hospital, is still waiting and d3's counter still counts it.
C19_Witness ==
    /\ response.op = "reset" /\ response.outcome = "ok" /\ response.department_id = "d1"
    /\ \E i \in DOMAIN appointments :
          appointments[i].department_id = "d3" /\ appointments[i].status = "waiting"
    /\ \E i \in DOMAIN appointments :
          appointments[i].department_id = "d1" /\ appointments[i].status = "cancelled"
    /\ \A r \in queue_status["d3"] : r.total_tokens = 1

\* C20: an authorized advance for a (hospital, department) pair that has no
\* queue_status row, neither when the function reads nor when it commits, ends
\* with an error instead of a returned value, and changes nothing.
C20_AdvanceWithoutRowFails ==
    [][\A s \in Sessions :
        (AdvanceCommits(s) /\ tmp[s] = NULL
         /\ QueueRows(arg[s].department_id, arg[s].hospital_id) = {})
            => /\ response'.op = "advance" /\ response'.outcome # "ok"
               /\ queue_status' = queue_status /\ appointments' = appointments]_vars

\* C21: in every reachable state a booking is applied wholly or not at all:
\* every number counted in total_tokens has its appointment, and every
\* appointment's number is counted.
C21_NoPartialBooking ==
    \A d \in CoreDepts : \A r \in QueueRows(d, dept_hospital[d]) :
        /\ \A n \in 1..r.total_tokens :
              \E i \in DeptAppointments(d, dept_hospital[d]) :
                  appointments[i].token_number = n
        /\ \A i \in DeptAppointments(d, dept_hospital[d]) :
              appointments[i].token_number <= r.total_tokens

\* C22: when the appointment insert of a booking fails after its token was
\* issued, total_tokens keeps the incremented value: it is not below the token
\* issued, so a booking that runs afterwards reads it and gets a higher number.
C22_FailedInsertKeepsToken ==
    [][\A s \in Sessions :
        (pc[s] = "insert" /\ pc'[s] = "idle" /\ response'.outcome = "error")
            => \A r \in queue_status'[arg[s].department_id] :
                  r.hospital_id = arg[s].hospital_id => r.total_tokens >= tmp[s]]_vars

C24_AppointmentsHaveQueueRow ==
    /\ \A i \in DOMAIN appointments :
          /\ appointments[i].department_id \in departments
          /\ QueueRows(appointments[i].department_id, appointments[i].hospital_id) # {}
    /\ \A d \in DeptIds \ departments : queue_status[d] = {}

\* d1 was deleted while it had an appointment: the appointment left is the
\* second one created, and it is the only one.
C24_Witness ==
    /\ "d1" \notin departments /\ queue_status["d1"] = {}
    /\ response.op = "delete"
    /\ Len(appointments) = 1
    /\ appointments[1].department_id = "d3" /\ appointments[1].created_at = 2

\* C25: every change of an appointment's status is one of waiting -> ready,
\* ready -> completed, waiting -> cancelled.
C25_OnlyThreeTransitions ==
    [][\A i \in DOMAIN appointments :
        (i \in DOMAIN appointments' /\ appointments'[i].status # appointments[i].status)
            => <<appointments[i].status, appointments'[i].status>> \in
                  {<<"waiting", "ready">>, <<"ready", "completed">>,
                   <<"waiting", "cancelled">>}]_vars

\* The waiting appointments of department d of hospital h.
WaitingAppointments(d, h) ==
    {i \in DeptAppointments(d, h) : appointments[i].status = "waiting"}

\* C26: when a booking and a reset of the same department overlapped and both
\* have finished, every waiting appointment has 1 <= token_number <=
\* total_tokens (the reset leaves no waiting appointment above the counter), and
\* total_tokens counts only the numbers issued since the reset (the booking does
\* not restore the counter of before the reset): it does not exceed the number
\* of waiting appointments.
C26_BookingOverlappingReset ==
    AllIdle =>
        \A d \in CoreDepts : \A r \in QueueRows(d, dept_hospital[d]) :
            /\ \A i \in WaitingAppointments(d, dept_hospital[d]) :
                  /\ 1 <= appointments[i].token_number
                  /\ appointments[i].token_number <= r.total_tokens
            /\ r.total_tokens <= Cardinality(WaitingAppointments(d, dept_hospital[d]))

\* The ready appointments of department d of hospital h.
ReadyAppointments(d, h) ==
    {i \in DeptAppointments(d, h) : appointments[i].status = "ready"}

\* C27: a department has at most one ready appointment, and the token number of
\* that appointment is the department's current_token.
C27_OneReadyAtCurrentToken ==
    \A d \in CoreDepts : \A r \in QueueRows(d, dept_hospital[d]) :
        /\ Cardinality(ReadyAppointments(d, dept_hospital[d])) <= 1
        /\ \A i \in ReadyAppointments(d, dept_hospital[d]) :
              appointments[i].token_number = r.current_token

\* C28: the next authorized advance of a department completes every appointment
\* of the department that is ready, also when a reset ran in between.
C28_NextAdvanceCompletesReady ==
    [][\A s \in Sessions : AdvanceCommits(s) =>
        \A i \in ReadyAppointments(arg[s].department_id, arg[s].hospital_id) :
            appointments'[i].status = "completed"]_vars

\* C29: while the admin keeps advancing and no reset occurs, every waiting
\* appointment is eventually ready, also one booked after current_token had
\* already reached its token number.
C29_WaitingEventuallyReady ==
    \A i \in AppointmentIds :
        (i \in DOMAIN appointments /\ appointments[i].status = "waiting")
            ~> (i \in DOMAIN appointments /\ appointments[i].status = "ready")

\* C30: one advance changes at most one appointment to ready and at most one to
\* completed, also when bookings overlap it.
C30_AdvanceChangesAtMostOneEach ==
    [][\A s \in Sessions : AdvanceCommits(s) =>
        \A st \in {"ready", "completed"} :
            Cardinality({i \in DOMAIN appointments :
                appointments[i].status # st /\ appointments'[i].status = st}) <= 1]_vars

\* Session s's booking issues its token in this step (generateTokenNumber's UPDATE).
IssuanceCommits(s) == pc[s] = "gen_update" /\ pc'[s] = "calc_est"

\* Another session is inside an operation on the department session s works on.
Overlapped(s) ==
    \E o \in Sessions \ {s} : pc[o] # "idle" /\ arg[o] = arg[s]

\* C31: when one booking and one advance of a department overlap, both effects
\* survive: the issuance leaves total_tokens one higher and current_token as it
\* was, the advance leaves current_token one higher and total_tokens as it was.
C31_BookingAndAdvanceBothSurvive ==
    [][\A s \in Sessions :
        LET d == arg[s].department_id
            h == arg[s].hospital_id
        IN  /\ (IssuanceCommits(s) /\ Overlapped(s)) =>
                  \A r \in QueueRows(d, h) :
                      queue_status'[d] = (queue_status[d] \ {r})
                          \cup {[r EXCEPT !.total_tokens = r.total_tokens + 1]}
            /\ (AdvanceCommits(s) /\ Overlapped(s)) =>
                  \A r \in QueueRows(d, h) :
                      queue_status'[d] = (queue_status[d] \ {r})
                          \cup {[r EXCEPT !.current_token = r.current_token + 1]}]_vars

\* C32: an advance or a reset called by the admin of hospital H with
\* hospital_id = H and a department of another hospital passes the
\* authorization check (it returns without an exception) and changes no
\* queue_status row and no appointment.
C32_ForeignDepartmentUntouched ==
    [][(/\ response'.op \in {"advance", "reset"}
        /\ response'.user = admin_id[response'.hospital_id]
        /\ dept_hospital[response'.department_id] # response'.hospital_id)
            => /\ response'.outcome = "ok"
               /\ queue_status' = queue_status
               /\ appointments' = appointments]_vars

\* The admin of h1 has just reset d2 of hospital h2 with hospital_id = h1: the
\* appointment of d2 is still waiting and d2's counter still counts it.
C32_Witness ==
    /\ response.op = "reset" /\ response.outcome = "ok"
    /\ response.user = "a1" /\ response.hospital_id = "h1"
    /\ response.department_id = "d2"
    /\ \E i \in DOMAIN appointments :
          appointments[i].department_id = "d2" /\ appointments[i].status = "waiting"
    /\ \A r \in queue_status["d2"] : r.total_tokens = 1

\* C33: when the read of the queue record fails during a booking although the
\* record exists, the INSERT the booking attempts is refused: the booking ends
\* with an error, no appointment is added, and the existing record keeps its
\* total_tokens and current_token.
C33_FailedReadKeepsRecord ==
    [][\A s \in Sessions :
        (/\ pc[s] = "gen_insert" /\ pc'[s] # "gen_insert"
         /\ QueueRows(arg[s].department_id, arg[s].hospital_id) # {})
            => /\ pc'[s] = "idle"
               /\ response'.op = "book" /\ response'.outcome = "error"
               /\ queue_status' = queue_status
               /\ appointments' = appointments]_vars

\* A booking has just failed that way on a record that had counted one token
\* and called it: the record still reads 1 and 1, not 1 and 0.
C33_Witness ==
    /\ response.op = "book" /\ response.outcome = "error"
    /\ response.department_id = "d2"
    /\ QueueRows("d2", "h2") = {[hospital_id |-> "h2", current_token |-> 1, total_tokens |-> 1]}

\* C34: the estimate computed at booking is max(0, token_number - current_token
\* - 1) * avg_time_per_patient minutes after the booking instant, with the
\* current_token stored after the token was issued: it is never negative, and
\* it is 0 when token_number <= current_token + 1.
C34_EstimateIsTokensAheadTimesAvg ==
    response.op = "estimate" =>
        \A r \in QueueRows(response.department_id, response.hospital_id) :
            /\ response.value =
                  Max(0, response.token_number - r.current_token - 1)
                      * response.avg_time_per_patient
            /\ response.value >= 0
            /\ response.token_number <= r.current_token + 1 => response.value = 0

\* The page's queueStatus shows the current_token stored for its appointment's
\* department.
TrackedIsStored ==
    \A a \in page.appointment :
        /\ page.queueStatus # {}
        /\ \A q \in page.queueStatus : \A r \in QueueRows(a.department_id, a.hospital_id) :
              q.current_token = r.current_token

\* C35: while a patient tracks an appointment, whenever the tracked queue status
\* differs from the stored current_token, the change the subscription delivers
\* eventually makes it equal again.
C35_SubscriptionRefreshesQueueStatus ==
    (page.appointment # {} /\ ~TrackedIsStored) ~> TrackedIsStored
====
